---- MODULE Spec2Model ----
(***************************************************************************)
(* Verification model of the bounded long-term memory store with           *)
(* multi-tier compaction (agents/context_compactor.py, core/memory_bank.py)*)
(*                                                                         *)
(* Python dicts are TLA+ functions with a string domain: a key is present  *)
(* iff it is in DOMAIN, the empty dict is << >>.  Python lists are         *)
(* sequences.  Time is counted in whole days since the epoch, and every    *)
(* modelled instant lies in 1970 so that strftime("%Y-%U") is exact.       *)
(* Floats that the code rounds to two decimals are integers in hundredths. *)
(***************************************************************************)
EXTENDS Integers, Sequences, FiniteSets, TLC

VARIABLES
    rec,    \* the user memory dict the caller holds and passes to the compactor
    now,    \* time.time(), in days
    call,   \* observation of the last compact_user_memory call
    prev,   \* observation of the call before the last one
    steps,  \* number of operations performed since construction
    max_memory_size,    \* ContextCompactor.max_memory_size, the byte budget
    data,   \* MemoryBank.data, the in-memory map from user id to record
    access_timestamps,  \* MemoryBank.access_timestamps
    disk,   \* the file at MemoryBank.path
    last,   \* observation of the last MemoryBank operation
    pc,     \* position of the MemoryBank caller inside _persist
    th,     \* the threads calling into MemoryBank concurrently
    sessions,       \* InMemorySessionService.sessions
    lock,           \* InMemorySessionService.lock: the caller holding it, 0 when free
    last_cleanup,   \* InMemorySessionService.last_cleanup
    sth,            \* position of each caller inside the session service
    lapsed,         \* the session ids whose idle time has exceeded the timeout
    sret,           \* observation of the last InMemorySessionService.get
    status,         \* LoopSupervisor.status
    stop_event,     \* LoopSupervisor._stop_event
    active_loops,   \* LoopSupervisor.active_loops, the session ids
    thread,         \* LoopSupervisor._thread, 0 when None
    loops,          \* the supervisor threads started so far, each with its position
    ctl             \* position of the caller of start_optimization_loop / stop_all_loops

compvars == <<rec, call, prev, max_memory_size>>
bankvars == <<data, access_timestamps, disk, last, pc, th>>
sessvars == <<sessions, lock, last_cleanup, sth, lapsed, sret>>
supvars == <<status, stop_event, active_loops, thread, loops, ctl>>
extvars == <<sessvars, supvars>>
vars == <<rec, now, call, prev, steps, max_memory_size,
          data, access_timestamps, disk, last, pc, th, sessvars, supvars>>

\* a session service nobody has used
NoGet == [sid |-> 0, found |-> FALSE, late |-> FALSE]
SessionsUnused ==
    /\ sessions = << >>
    /\ lock = 0
    /\ last_cleanup = 0
    /\ sth = << >>
    /\ lapsed = {}
    /\ sret = NoGet

\* a supervisor nobody has used
SupervisorUnused ==
    /\ status = "stopped"
    /\ stop_event = FALSE
    /\ active_loops = {}
    /\ thread = 0
    /\ loops = << >>
    /\ ctl = [pc |-> "idle"]

ExtUnused == SessionsUnused /\ SupervisorUnused

---------------------------------------------------------------------------
(* Python dict and list helpers *)

EmptyDict == << >>

\* JSON null / Python None, one per value type so that values stay comparable
NoneStr == "None"
NoneNum == 0 - 1

Has(d, k) == k \in DOMAIN d

Get(d, k, dflt) == IF k \in DOMAIN d THEN d[k] ELSE dflt

Put(d, k, v) == (k :> v) @@ d

Del(d, k) == [j \in DOMAIN d \ {k} |-> d[j]]

\* lst[-n:]
LastN(lst, n) == IF Len(lst) <= n THEN lst ELSE SubSeq(lst, Len(lst) - n + 1, Len(lst))

\* lst[:-n]
AllButLastN(lst, n) == IF Len(lst) <= n THEN << >> ELSE SubSeq(lst, 1, Len(lst) - n)

\* lst[:n]
FirstN(lst, n) == IF Len(lst) <= n THEN lst ELSE SubSeq(lst, 1, n)

RECURSIVE SumSeq(_)
SumSeq(s) == IF s = << >> THEN 0 ELSE Head(s) + SumSeq(Tail(s))

RECURSIVE SumFn(_, _)
SumFn(f, S) == IF S = {} THEN 0
               ELSE LET k == CHOOSE j \in S : TRUE IN f[k] + SumFn(f, S \ {k})

\* x in lst
InList(x, lst) == \E i \in 1..Len(lst) : lst[i] = x

---------------------------------------------------------------------------
(* len(json.dumps(x)) with the default separators ", " and ": " *)

RECURSIVE Digits(_)
Digits(n) == IF n < 10 THEN 1 ELSE 1 + Digits(n \div 10)

JNum(n) == IF n = NoneNum THEN 4 ELSE Digits(n)

JStr(s) == IF s = NoneStr THEN 4 ELSE Len(s) + 2

JBool(b) == IF b THEN 4 ELSE 5

\* repr of a float held in hundredths: 3333 -> "33.33", 5000 -> "50.0"
JFloat100(h) ==
    IF h = NoneNum THEN 4
    ELSE Digits(h \div 100) + 1 + (IF h % 10 = 0 THEN 1 ELSE 2)

\* a dict whose values serialise to lens[k] characters
JDict(lens) ==
    IF DOMAIN lens = {} THEN 2
    ELSE 2 + SumFn([k \in DOMAIN lens |-> Len(k) + 2 + 2 + lens[k]], DOMAIN lens)
           + 2 * (Cardinality(DOMAIN lens) - 1)

\* a list whose items serialise to lens[i] characters
JList(lens) ==
    IF lens = << >> THEN 2 ELSE 2 + SumSeq(lens) + 2 * (Len(lens) - 1)

JStrSet(S) ==
    IF S = {} THEN 2
    ELSE 2 + SumFn([s \in S |-> JStr(s)], S) + 2 * (Cardinality(S) - 1)

---------------------------------------------------------------------------
(* Plan summaries: ContextCompactor._summarize_plan and its helpers *)

\* the exception a stage raises is observed only as "raised"; a day entry
\* that is not a dict makes day_data.get fail with AttributeError
DayRaises(week_data) ==
    /\ week_data.shape = "list"
    /\ \E i \in 1..Len(week_data.days) : ~week_data.days[i].is_dict

_count_total_tasks(weekly_structure) ==
    IF DOMAIN weekly_structure = {} THEN 0
    ELSE SumFn([w \in DOMAIN weekly_structure |->
                  IF weekly_structure[w].shape = "list"
                  THEN SumSeq([i \in 1..Len(weekly_structure[w].days) |->
                                  weekly_structure[w].days[i].tasks])
                  ELSE IF weekly_structure[w].shape = "dict"
                       THEN weekly_structure[w].daily_tasks * 7
                       ELSE 0],
               DOMAIN weekly_structure)

\* list(set(objectives))[:5]: at most 3 goals and 2 milestones are collected,
\* so the slice never cuts and the result is the set itself
_extract_key_objectives(plan_data) ==
    LET success_criteria == Get(plan_data, "success_criteria", EmptyDict)
        weekly_goals == Get(success_criteria, "weekly_goals", << >>)
        milestones == Get(plan_data, "milestones", << >>)
        goals == {FirstN(weekly_goals, 3)[i] : i \in 1..Len(FirstN(weekly_goals, 3))}
        miles == {Get(FirstN(milestones, 2)[i], "milestone", "") :
                      i \in 1..Len(FirstN(milestones, 2))}
    IN  {obj \in goals \cup miles : Len(obj) > 0}

_estimate_difficulty(weekly_structure) ==
    LET total_tasks == _count_total_tasks(weekly_structure)
        total_weeks == Cardinality(DOMAIN weekly_structure)
    IN  IF total_weeks = 0 THEN "unknown"
        ELSE IF total_tasks > 5 * (total_weeks * 7) THEN "high"
        ELSE IF total_tasks > 2 * (total_weeks * 7) THEN "medium"
        ELSE "low"

_summarize_plan(plan) ==
    LET plan_data == Get(plan, "plan_data", EmptyDict)
        metadata == Get(plan_data, "metadata", EmptyDict)
        weekly_structure == Get(plan_data, "weekly_structure", EmptyDict)
    IN  [duration_weeks |-> Get(metadata, "plan_duration_weeks", 0),
         total_tasks |-> _count_total_tasks(weekly_structure),
         completion_rate |-> Get(plan, "completion_rate", "unknown"),
         key_objectives |-> _extract_key_objectives(plan_data),
         difficulty_level |-> _estimate_difficulty(weekly_structure)]

\* _summarize_plan(plan) raises instead of returning
SummarizeRaises(plan) ==
    LET weekly_structure == Get(Get(plan, "plan_data", EmptyDict), "weekly_structure", EmptyDict)
    IN  \E w \in DOMAIN weekly_structure : DayRaises(weekly_structure[w])

SizeSummary(s) ==
    JDict([k \in DOMAIN s |->
        CASE k = "duration_weeks" -> JNum(s[k])
          [] k = "total_tasks" -> JNum(s[k])
          [] k = "completion_rate" -> JStr(s[k])
          [] k = "key_objectives" -> JStrSet(s[k])
          [] k = "difficulty_level" -> JStr(s[k])])

\* len(json.dumps(plan)); plan_data is an opaque document that carries its
\* own serialised length, a plan id is "plan_" followed by its number
SizePlan(plan) ==
    JDict([k \in DOMAIN plan |->
        CASE k = "plan_data" -> plan[k].bytes
          [] k = "created_at" -> JNum(plan[k])
          [] k = "plan_id" -> 5 + JNum(plan[k]) + 2
          [] k = "plan_type" -> JStr(plan[k])
          [] k = "summary" -> SizeSummary(plan[k])
          [] k = "compacted" -> JBool(plan[k])
          [] k = "original_size" -> JNum(plan[k])])

---------------------------------------------------------------------------
(* Stage 1, plan tiering: ContextCompactor._compact_plans *)

PlanCompactThreshold == 5
RecentPlansKept == 3

\* the dict built for one older plan, had it copied the plan and added to it
CompactedPlanKeepingData(plan) ==
    [summary |-> _summarize_plan(plan), compacted |-> TRUE,
     original_size |-> SizePlan(plan)] @@ plan

\* the dict built for one older plan
CompactedPlan(plan) ==
    [plan_id |-> Get(plan, "plan_id", NoneNum),
     created_at |-> Get(plan, "created_at", NoneNum),
     plan_type |-> Get(plan, "plan_type", NoneStr),
     summary |-> _summarize_plan(plan),
     compacted |-> TRUE,
     original_size |-> SizePlan(plan)]

\* the stage rebuilds memory["plans"] and memory["compaction_metadata"]
PlansRebuilt(memory) ==
    /\ Has(memory, "plans")
    /\ Len(memory.plans) > PlanCompactThreshold

_compact_plans(memory, t) ==
    IF ~PlansRebuilt(memory) THEN memory
    ELSE LET plans == memory.plans
             recent_plans == LastN(plans, RecentPlansKept)
             older_plans == AllButLastN(plans, RecentPlansKept)
             compacted_older_plans ==
                 [i \in 1..Len(older_plans) |-> CompactedPlan(older_plans[i])]
         IN  Put(Put(memory, "plans", recent_plans \o compacted_older_plans),
                 "compaction_metadata",
                 [plans_compacted |-> Len(older_plans), compaction_timestamp |-> t])

\* summarising one of the older plans raises
CompactPlansRaises(memory) ==
    /\ PlansRebuilt(memory)
    /\ \E i \in 1..Len(AllButLastN(memory.plans, RecentPlansKept)) :
           SummarizeRaises(memory.plans[i])

---------------------------------------------------------------------------
(* Stage 2, progress tiering: _compact_progress_history and              *)
(* _aggregate_progress_trends                                              *)

ProgressCompactThreshold == 10
RecentWindowDays == 7
Year == 1970

\* round(a / b, 2-decimal grid already applied by the caller): nearest integer,
\* ties to even
RoundDiv(a, b) ==
    LET q == a \div b
        r == a % b
    IN  IF 2 * r < b THEN q
        ELSE IF 2 * r > b THEN q + 1
        ELSE IF q % 2 = 0 THEN q ELSE q + 1

\* time.strftime("%Y-%U", time.gmtime(t)): day 0 is Thursday 1 January 1970,
\* %U counts weeks that start on Sunday, the days before the first Sunday
\* are week 0
WeekKey(t) ==
    LET yday == t
        wday == (4 + t) % 7
    IN  <<Year, (yday + 7 - wday) \div 7>>

\* _aggregate_progress_trends with the weekly rate taken from the mean of the
\* records' own completion rates instead of from the task totals
AggregateFromRecordRates(progress_records) ==
    LET idx == 1..Len(progress_records)
        week_of(i) == WeekKey(Get(progress_records[i], "timestamp", 0))
        weeks == {week_of(i) : i \in idx}
        members(w) == {i \in idx : week_of(i) = w}
        metric(i, k) == Get(Get(progress_records[i], "metrics", EmptyDict), k, 0)
        total(w, k) == SumFn([i \in idx |-> metric(i, k)], members(w))
    IN  [w \in weeks |->
            [average_completion_rate |->
                 RoundDiv(total(w, "completion_rate") * 100, Cardinality(members(w))),
             average_efficiency_score |->
                 RoundDiv(total(w, "efficiency_score") * 100, Cardinality(members(w))),
             overall_completion_rate |->
                 RoundDiv(total(w, "completion_rate") * 100, Cardinality(members(w))),
             records_aggregated |-> Cardinality(members(w))]]

_aggregate_progress_trends(progress_records) ==
    LET idx == 1..Len(progress_records)
        week_of(i) == WeekKey(Get(progress_records[i], "timestamp", 0))
        weeks == {week_of(i) : i \in idx}
        members(w) == {i \in idx : week_of(i) = w}
        metric(i, k) == Get(Get(progress_records[i], "metrics", EmptyDict), k, 0)
        total(w, k) == SumFn([i \in idx |-> metric(i, k)], members(w))
    IN  [w \in weeks |->
            [average_completion_rate |->
                 RoundDiv(total(w, "completion_rate") * 100, Cardinality(members(w))),
             average_efficiency_score |->
                 RoundDiv(total(w, "efficiency_score") * 100, Cardinality(members(w))),
             overall_completion_rate |->
                 IF total(w, "total_tasks") > 0
                 THEN RoundDiv(total(w, "completed_tasks") * 10000, total(w, "total_tasks"))
                 ELSE 0,
             records_aggregated |-> Cardinality(members(w))]]

RecentRecords(progress_history, t) ==
    SelectSeq(progress_history,
              LAMBDA record : Get(record, "timestamp", 0) > t - RecentWindowDays)

OlderRecords(progress_history, t) ==
    SelectSeq(progress_history,
              LAMBDA record : ~InList(record, RecentRecords(progress_history, t)))

\* the stage reaches the branch that folds older records
ProgressFolds(memory, t) ==
    /\ Has(memory, "progress_history")
    /\ Len(memory.progress_history) > ProgressCompactThreshold
    /\ OlderRecords(memory.progress_history, t) # << >>

\* memory["compaction_metadata"][...] = ... is a KeyError without that key
CompactProgressRaises(memory, t) ==
    /\ ProgressFolds(memory, t)
    /\ ~Has(memory, "compaction_metadata")

_compact_progress_history(memory, t) ==
    IF ~ProgressFolds(memory, t) THEN memory
    ELSE LET older_records == OlderRecords(memory.progress_history, t)
             m1 == Put(memory, "progress_trends", _aggregate_progress_trends(older_records))
             m2 == Put(m1, "progress_history", RecentRecords(memory.progress_history, t))
         IN  IF ~Has(m2, "compaction_metadata") THEN m2
             ELSE Put(m2, "compaction_metadata",
                      Put(m2.compaction_metadata, "progress_records_compacted",
                          Len(older_records)))

---------------------------------------------------------------------------
(* Stage 3, interaction patterns: _compact_interaction_patterns.          *)
(* preferred_learning_times is an insertion-ordered dict, held as the     *)
(* list of its items [name, freq].                                         *)

TopTimesKept == 3

\* sorted(items, key=freq)[::-1]: among equal keys the last inserted comes first
SortedAscendingReversed(items) ==
    LET idx == 1..Len(items)
        rank(i) == Cardinality({j \in idx : items[j].freq > items[i].freq})
                   + Cardinality({j \in idx : j > i /\ items[j].freq = items[i].freq})
    IN  [r \in idx |-> items[CHOOSE i \in idx : rank(i) + 1 = r]]

\* sorted(items, key=freq, reverse=True): stable, equal keys keep their order
SortedByFreqDesc(items) ==
    LET idx == 1..Len(items)
        rank(i) == Cardinality({j \in idx : items[j].freq > items[i].freq})
                   + Cardinality({j \in idx : j < i /\ items[j].freq = items[i].freq})
    IN  [r \in idx |-> items[CHOOSE i \in idx : rank(i) + 1 = r]]

_compact_interaction_patterns(memory) ==
    IF ~Has(memory, "interaction_patterns") THEN memory
    ELSE LET patterns == memory.interaction_patterns
             times == Get(patterns, "preferred_learning_times", << >>)
             p1 == IF ~Has(patterns, "preferred_learning_times") THEN EmptyDict
                   ELSE IF Len(times) > TopTimesKept
                        THEN [preferred_learning_times |->
                                  FirstN(SortedByFreqDesc(times), TopTimesKept)]
                        ELSE [preferred_learning_times |-> times]
             p2 == IF ~Has(patterns, "task_completion_patterns") THEN p1
                   ELSE LET completion_patterns == patterns.task_completion_patterns
                        IN  Put(p1, "completion_summary",
                                [average_daily_completion |->
                                     Get(completion_patterns, "average_daily_completion", NoneNum),
                                 best_performing_day |->
                                     Get(completion_patterns, "best_performing_day", NoneStr),
                                 consistency_score |->
                                     Get(completion_patterns, "consistency_score", NoneNum)])
             significant_patterns ==
                   IF ~Has(patterns, "learning_style_preferences") THEN p2
                   ELSE Put(p2, "learning_style_preferences",
                            patterns.learning_style_preferences)
         IN  Put(memory, "interaction_patterns", significant_patterns)

---------------------------------------------------------------------------
(* Stage 4, metadata: _summarize_metadata and its helpers *)

TopFormatsKept == 3

_calculate_total_learning_hours(memory) ==
    IF ~Has(memory, "progress_history") THEN 0
    ELSE LET h == memory.progress_history
             total_minutes ==
                 SumSeq([i \in 1..Len(h) |->
                     Get(Get(h[i], "metrics", EmptyDict), "total_duration_minutes", 0)])
         IN  RoundDiv(total_minutes * 100, 60)

_summarize_preferences(preferences) ==
    LET copied == {"difficulty_level", "learning_style", "daily_study_hours"}
                      \cap DOMAIN preferences
        summary == [k \in copied |-> preferences[k]]
    IN  IF DOMAIN preferences = {} THEN EmptyDict
        ELSE IF Has(preferences, "preferred_formats")
             THEN Put(summary, "preferred_formats",
                      FirstN(preferences.preferred_formats, TopFormatsKept))
             ELSE summary

MetadataFields == {"created_at", "last_accessed", "last_updated"}

_summarize_metadata(memory) ==
    LET essential_metadata ==
            [created_at |-> Get(memory, "created_at", NoneNum),
             last_accessed |-> Get(memory, "last_accessed", NoneNum),
             last_updated |-> Get(memory, "last_updated", NoneNum),
             total_learning_hours |-> _calculate_total_learning_hours(memory),
             preferences_summary |->
                 _summarize_preferences(Get(memory, "preferences", EmptyDict))]
        stripped == [k \in DOMAIN memory \ MetadataFields |-> memory[k]]
    IN  Put(stripped, "essential_metadata", essential_metadata)

---------------------------------------------------------------------------
(* len(json.dumps(memory)) *)

\* a value json.dumps cannot encode (a set, a datetime, ...)
Unserializable == "<object>"

Serializable(memory) ==
    \A k \in DOMAIN Get(memory, "profile", EmptyDict) : memory.profile[k] # Unserializable

SizeProgress(record) ==
    JDict([k \in DOMAIN record |->
        CASE k = "timestamp" -> JNum(record[k])
          [] k = "record_id" -> 9 + JNum(record[k]) + 2
          [] k = "metrics" -> JDict([j \in DOMAIN record[k] |-> JNum(record[k][j])])])

SizePreferences(preferences) ==
    JDict([k \in DOMAIN preferences |->
        CASE k = "preferred_formats" ->
                 JList([i \in 1..Len(preferences[k]) |-> JStr(preferences[k][i])])
          [] k = "daily_study_hours" -> JNum(preferences[k])
          [] OTHER -> JStr(preferences[k])])

SizeTimes(times) ==
    IF times = << >> THEN 2
    ELSE 2 + SumSeq([i \in 1..Len(times) |->
                        JStr(times[i].name) + 2 + JNum(times[i].freq)])
           + 2 * (Len(times) - 1)

SizePatterns(patterns) ==
    JDict([k \in DOMAIN patterns |->
        CASE k = "preferred_learning_times" -> SizeTimes(patterns[k])
          [] k = "task_completion_patterns" ->
                 JDict([j \in DOMAIN patterns[k] |->
                     CASE j = "best_performing_day" -> JStr(patterns[k][j])
                       [] j = "daily_log" ->
                              JList([i \in 1..Len(patterns[k][j]) |-> JNum(patterns[k][j][i])])
                       [] OTHER -> JNum(patterns[k][j])])
          [] k = "completion_summary" ->
                 JDict([j \in DOMAIN patterns[k] |->
                     IF j = "best_performing_day" THEN JStr(patterns[k][j])
                     ELSE JNum(patterns[k][j])])
          [] OTHER -> JStr(patterns[k])])

\* week keys print as "1970-09": seven characters and two quotes
SizeTrends(trends) ==
    IF DOMAIN trends = {} THEN 2
    ELSE 2 + SumFn([w \in DOMAIN trends |->
                       9 + 2 + JDict([j \in DOMAIN trends[w] |->
                                        IF j = "records_aggregated" THEN JNum(trends[w][j])
                                        ELSE JFloat100(trends[w][j])])],
                   DOMAIN trends)
           + 2 * (Cardinality(DOMAIN trends) - 1)

SizeEssential(em) ==
    JDict([k \in DOMAIN em |->
        CASE k = "total_learning_hours" -> JFloat100(em[k])
          [] k = "preferences_summary" -> SizePreferences(em[k])
          [] OTHER -> JNum(em[k])])

FieldSize(memory, k) ==
    CASE k = "profile" -> JDict([j \in DOMAIN memory[k] |-> JStr(memory[k][j])])
      [] k = "plans" -> JList([i \in 1..Len(memory[k]) |-> SizePlan(memory[k][i])])
      [] k = "progress_history" ->
             JList([i \in 1..Len(memory[k]) |-> SizeProgress(memory[k][i])])
      [] k = "preferences" -> SizePreferences(memory[k])
      [] k = "interaction_patterns" -> SizePatterns(memory[k])
      [] k = "compaction_metadata" -> JDict([j \in DOMAIN memory[k] |-> JNum(memory[k][j])])
      [] k = "progress_trends" -> SizeTrends(memory[k])
      [] k = "essential_metadata" -> SizeEssential(memory[k])
      [] OTHER -> JNum(memory[k])

SizeRecord(memory) == JDict([k \in DOMAIN memory |-> FieldSize(memory, k)])

---------------------------------------------------------------------------
(* Stage 5, budget enforcement: _enforce_size_limits *)

DefaultMaxMemorySize == 10000
AggressiveProgressKept == 5
NonEssentialLimit == 1000

NeedsForce(plan) == Has(plan, "plan_data") /\ ~Get(plan, "compacted", FALSE)

\* plan["summary"] = ...; del plan["plan_data"]; plan["compacted"] = True
ForceSummarized(plan) ==
    Put(Put(Del(plan, "plan_data"), "summary", _summarize_plan(plan)), "compacted", TRUE)

\* index of the first plan whose summary raises, 0 when the loop completes
FirstRaising(plans) ==
    LET bad == {i \in 1..Len(plans) : NeedsForce(plans[i]) /\ SummarizeRaises(plans[i])}
    IN  IF bad = {} THEN 0 ELSE CHOOSE i \in bad : \A j \in bad : i <= j

\* the plan dicts as the loop leaves them; they are mutated in place, so the
\* loop's work up to a raising plan stays done
ForcedPlans(plans) ==
    [i \in 1..Len(plans) |->
        IF NeedsForce(plans[i]) /\ (FirstRaising(plans) = 0 \/ i < FirstRaising(plans))
        THEN ForceSummarized(plans[i])
        ELSE plans[i]]

OverBudget(memory) == SizeRecord(memory) > max_memory_size

EnforceRaises(memory) ==
    /\ OverBudget(memory)
    /\ Has(memory, "plans")
    /\ FirstRaising(memory.plans) # 0

NonEssentialFields == {"interaction_patterns", "compaction_metadata", "progress_trends"}

\* _enforce_size_limits without its step 2: the plans keep their plan_data
EnforceWithoutPlanSummaries(memory) ==
    IF ~OverBudget(memory) THEN memory
    ELSE LET c1 == IF Has(memory, "progress_history")
                      /\ Len(memory.progress_history) > AggressiveProgressKept
                   THEN Put(memory, "progress_history",
                            LastN(memory.progress_history, AggressiveProgressKept))
                   ELSE memory
             dropped == {f \in NonEssentialFields \cap DOMAIN c1 :
                             FieldSize(c1, f) > NonEssentialLimit}
         IN  [k \in DOMAIN c1 \ dropped |-> c1[k]]

_enforce_size_limits(memory) ==
    IF ~OverBudget(memory) THEN memory
    ELSE LET c1 == IF Has(memory, "progress_history")
                      /\ Len(memory.progress_history) > AggressiveProgressKept
                   THEN Put(memory, "progress_history",
                            LastN(memory.progress_history, AggressiveProgressKept))
                   ELSE memory
             c2 == IF Has(c1, "plans") THEN Put(c1, "plans", ForcedPlans(c1.plans)) ELSE c1
             dropped == {f \in NonEssentialFields \cap DOMAIN c2 :
                             FieldSize(c2, f) > NonEssentialLimit}
         IN  [k \in DOMAIN c2 \ dropped |-> c2[k]]

---------------------------------------------------------------------------
(* ContextCompactor.compact_user_memory.  user_memory.copy() is shallow:   *)
(* the working dict shares its plan dicts and its compaction_metadata dict *)
(* with the caller's dict until a stage rebinds the key, so what stage 2   *)
(* and stage 5 write into those objects is written into the caller's dict. *)

\* the caller's plans after the call: stage 5 works on the caller's own plan
\* dicts, all of them when stage 1 kept the list, the last three otherwise
PlansAfter(user_memory, staged) ==
    LET n == Len(user_memory.plans)
        forced == ForcedPlans(staged.plans)
    IN  IF PlansRebuilt(user_memory)
        THEN [i \in 1..n |->
                 IF i > n - RecentPlansKept THEN forced[i - (n - RecentPlansKept)]
                 ELSE user_memory.plans[i]]
        ELSE forced

compact_user_memory(user_memory, t) ==
    LET s1 == _compact_plans(user_memory, t)
        s2 == _compact_progress_history(s1, t)
        s3 == _compact_interaction_patterns(s2)
        s4 == _summarize_metadata(s3)
        s5 == _enforce_size_limits(s4)
        \* stage 2 wrote into the caller's compaction_metadata dict
        a2 == IF ~PlansRebuilt(user_memory) /\ ProgressFolds(s1, t)
                 /\ Has(user_memory, "compaction_metadata")
              THEN Put(user_memory, "compaction_metadata", s2.compaction_metadata)
              ELSE user_memory
        \* stage 5 wrote into the caller's plan dicts
        a5 == IF OverBudget(s4) /\ Has(user_memory, "plans")
              THEN Put(a2, "plans", PlansAfter(user_memory, s4))
              ELSE a2
        base == [inp |-> user_memory, at |-> t, folded |-> 0, forced |-> FALSE]
    IN  IF ~Serializable(user_memory)
        THEN base @@ [status |-> "raised", out |-> user_memory, after |-> user_memory]
        ELSE IF CompactPlansRaises(user_memory)
        THEN base @@ [status |-> "caught", out |-> user_memory, after |-> user_memory]
        ELSE IF CompactProgressRaises(s1, t)
        THEN base @@ [status |-> "caught", out |-> user_memory, after |-> user_memory]
        ELSE IF EnforceRaises(s4)
        THEN [base EXCEPT !.forced = TRUE]
             @@ [status |-> "caught", out |-> a5, after |-> a5]
        ELSE [base EXCEPT !.forced = OverBudget(s4),
                          !.folded = IF ProgressFolds(s1, t)
                                     THEN Len(OlderRecords(s1.progress_history, t))
                                     ELSE 0]
             @@ [status |-> "ok", out |-> s5, after |-> a5]

---------------------------------------------------------------------------
(* Records the store hands out: MemoryBank.get_user_memory's default dict, *)
(* grown by add_plan and add_progress_record                               *)

MaxPlans == 7
MaxOld == 8
MaxRecent == 11
MaxSteps == 3
SmallPlanBytes == 300
BigPlanBytes == 4000
NowStart == 70
TickDays == 7
FirstPlanDay == 10
TightBudget == 900
MaxSessionSteps == 4
MaxSupervisorCalls == 3
MaxBankSteps == 3
MaxTimes == 5
MaxFreq == 3

\* a plan document: a week given as a list of days, a week given as a dict,
\* or a week whose day entry is not a dict
PlanData(kind) ==
    [metadata |-> [plan_duration_weeks |-> IF kind = "big" THEN 4 ELSE 2],
     weekly_structure |->
         IF kind = "big"
         THEN ("week_1" :> [shape |-> "dict", days |-> << >>, daily_tasks |-> 3])
         ELSE ("week_1" :> [shape |-> "list",
                            days |-> <<[is_dict |-> kind # "bad", tasks |-> 2]>>,
                            daily_tasks |-> 0]),
     success_criteria |-> [weekly_goals |-> <<"g1", "g2">>],
     milestones |-> <<[milestone |-> "m1"]>>,
     bytes |-> IF kind = "big" THEN BigPlanBytes ELSE SmallPlanBytes]

\* the dict add_plan appends
PlanRecord(kind, t) == [plan_data |-> PlanData(kind), created_at |-> t, plan_id |-> t]

MetricChoices ==
    {[completion_rate |-> 0, efficiency_score |-> 0, total_tasks |-> 0,
      completed_tasks |-> 0, total_duration_minutes |-> 0],
     [completion_rate |-> 33, efficiency_score |-> 50, total_tasks |-> 3,
      completed_tasks |-> 1, total_duration_minutes |-> 50],
     [completion_rate |-> 100, efficiency_score |-> 90, total_tasks |-> 4,
      completed_tasks |-> 4, total_duration_minutes |-> 90]}

MetricsOf(i) ==
    CHOOSE m \in MetricChoices :
        m.total_tasks = (CASE i % 3 = 0 -> 0 [] i % 3 = 1 -> 3 [] OTHER -> 4)

\* the dict add_progress_record appends
ProgressRecord(m, t) == [metrics |-> m, timestamp |-> t, record_id |-> t]

\* nOld records from before the seven-day window, oldest first, either three
\* to a day from day NowStart - 11 on or one per week, then nRecent records
\* inside the window, two to a day
InitHistory(nOld, nRecent, pattern) ==
    [i \in 1..(nOld + nRecent) |->
        IF i <= nOld
        THEN ProgressRecord(MetricsOf(i),
                 IF pattern = "same" THEN NowStart - 11 + (i - 1) \div 3
                 ELSE NowStart - 9 - 7 * (nOld - i))
        ELSE ProgressRecord(MetricsOf(i), NowStart - 6 + (i - nOld - 1) \div 2)]

InitPlans(np, kind, bad) ==
    [i \in 1..np |-> PlanRecord(IF i = bad THEN "bad" ELSE kind, FirstPlanDay + i)]

SamplePreferences ==
    [preferred_formats |-> <<"video", "text", "quiz", "audio">>,
     difficulty_level |-> "medium",
     daily_study_hours |-> 2]

SamplePatterns ==
    [preferred_learning_times |->
         <<[name |-> "morning", freq |-> 5], [name |-> "evening", freq |-> 5],
           [name |-> "night", freq |-> 2], [name |-> "afternoon", freq |-> 1]>>,
     task_completion_patterns |->
         [average_daily_completion |-> 3, best_performing_day |-> "monday",
          consistency_score |-> 80, daily_log |-> <<3, 2, 4>>],
     learning_style_preferences |-> "visual"]

InitRecord(np, kind, bad, nOld, nRecent, pattern, rich, goals) ==
    [profile |-> [goals |-> goals],
     plans |-> InitPlans(np, kind, bad),
     progress_history |-> InitHistory(nOld, nRecent, pattern),
     preferences |-> IF rich THEN SamplePreferences ELSE EmptyDict,
     interaction_patterns |-> IF rich THEN SamplePatterns ELSE EmptyDict,
     created_at |-> FirstPlanDay,
     last_accessed |-> NowStart]

NoCall ==
    [status |-> "none", inp |-> EmptyDict, out |-> EmptyDict, after |-> EmptyDict,
     at |-> 0, folded |-> 0, forced |-> FALSE, n |-> 0]

\* the plan lists the history shapes are combined with
PlanShapes == {<<2, "small">>, <<4, "big">>, <<MaxPlans - 1, "small">>, <<MaxPlans - 1, "big">>}

\* the history shapes the plan lists are combined with
HistoryShapes == {<<0, 0>>, <<3, MaxRecent>>}

InitRecords ==
    UNION {{InitRecord(np, kind, bad, h[1], h[2], "same", rich, "learn") :
                kind \in {"small", "big"},
                bad \in {b \in {0, 2, MaxPlans - 1} : b <= np},
                h \in HistoryShapes, rich \in BOOLEAN} : np \in 0..MaxPlans}
    \cup
    {InitRecord(ps[1], ps[2], 0, nOld, nRecent, pattern, FALSE, "learn") :
         ps \in PlanShapes, nOld \in 0..MaxOld, nRecent \in {0, 6, MaxRecent},
         pattern \in {"same", "spread"}}
    \cup
    {InitRecord(np, "small", 0, 0, 0, "same", FALSE, Unserializable) : np \in 0..1}
    \cup
    {InitRecord(2, "big", 0, 0, MaxRecent, "same", rich, "learn") : rich \in BOOLEAN}

\* the budgets a compactor is constructed with: the default, and for the
\* records of many small plans one that forced compaction cannot reach
Budgets(memory) ==
    {DefaultMaxMemorySize}
        \cup IF Has(memory, "plans") /\ Len(memory.plans) = MaxPlans
                  /\ Len(memory.progress_history) >= MaxRecent
             THEN {TightBudget} ELSE {}

\* a MemoryBank nobody has used: no file, no record, no caller
NoFile == [state |-> "absent", content |-> EmptyDict]
NoOp == [op |-> "none", user |-> NoneStr, ret |-> EmptyDict, before |-> EmptyDict,
         blob |-> NoFile, wrote |-> "none", at |-> 0]
BankUnused ==
    /\ data = EmptyDict
    /\ access_timestamps = EmptyDict
    /\ disk = NoFile
    /\ last = NoOp
    /\ pc = "idle"
    /\ th = << >>

\* the hours of the day a histogram of preferred learning times can name,
\* in the order they are inserted
TimeNames == <<"morning", "afternoon", "evening", "night", "dawn", "noon", "dusk", "midnight">>

\* every histogram of up to MaxTimes entries with frequencies up to MaxFreq
Histograms ==
    UNION {{[i \in 1..n |-> [name |-> TimeNames[i], freq |-> f[i]]] :
                f \in [1..n -> 1..MaxFreq]} : n \in 0..MaxTimes}

\* records that differ in their histogram only
HistogramRecords ==
    {[InitRecord(1, "small", 0, 0, 1, "same", FALSE, "learn")
          EXCEPT !.interaction_patterns =
              [preferred_learning_times |-> h, learning_style_preferences |-> "visual"]] :
         h \in Histograms}

Init ==
    /\ rec \in InitRecords
    /\ max_memory_size \in Budgets(rec)
    /\ ExtUnused
    /\ BankUnused
    /\ now = NowStart
    /\ call = NoCall
    /\ prev = NoCall
    /\ steps = 0

---------------------------------------------------------------------------
(* Operations *)

\* a caller passes its record to the compactor and goes on with what it
\* gets back; an exception leaves it with the dict it passed
CompactUserMemory ==
    /\ steps < MaxSteps
    /\ LET c == compact_user_memory(rec, now) @@ [n |-> call.n + 1]
       IN  /\ call' = c
           /\ rec' = IF c.status = "raised" THEN c.after ELSE c.out
    /\ prev' = call
    /\ steps' = steps + 1
    /\ UNCHANGED <<now, max_memory_size, extvars, bankvars>>

\* MemoryBank.add_progress_record
add_progress_record(m) ==
    /\ steps < MaxSteps
    /\ Has(rec, "progress_history")
    /\ rec' = Put(rec, "progress_history",
                  Append(rec.progress_history, ProgressRecord(m, now)))
    /\ steps' = steps + 1
    /\ UNCHANGED <<now, call, prev, max_memory_size, extvars, bankvars>>

\* time passes
Tick ==
    /\ steps < MaxSteps
    /\ now' = now + TickDays
    /\ steps' = steps + 1
    /\ UNCHANGED <<rec, call, prev, max_memory_size, extvars, bankvars>>

Next ==
    \/ CompactUserMemory
    \/ \E m \in {c \in MetricChoices : c.total_tasks > 0} : add_progress_record(m)
    \/ Tick

Spec == Init /\ [][Next]_vars

\* the compactor applied to every histogram
InitTimes ==
    /\ rec \in HistogramRecords
    /\ max_memory_size = DefaultMaxMemorySize
    /\ ExtUnused
    /\ BankUnused
    /\ now = NowStart
    /\ call = NoCall
    /\ prev = NoCall
    /\ steps = 0

SpecTimes == InitTimes /\ [][CompactUserMemory]_vars

---------------------------------------------------------------------------
(* MemoryBank (core/memory_bank.py).  A bank is the pair of its two dicts, *)
(* [data, access_timestamps]; an operation maps a bank to the bank after   *)
(* it.  The file holds the JSON text of data; for the values stored here   *)
(* (dicts with string keys, lists, numbers, strings) json.load gives back  *)
(* what json.dump was given, so a complete file is held as the map it      *)
(* encodes, and a file that was opened for writing and not completed as    *)
(* "truncated".                                                            *)

RetentionCap == 20
BankMaxPlans == 10
BankMaxProgress == 50

\* the dict literal of lines 59-67 and 81-89
DefaultRecord(t) ==
    [profile |-> EmptyDict, plans |-> << >>, progress_history |-> << >>,
     preferences |-> EmptyDict, interaction_patterns |-> EmptyDict,
     created_at |-> t, last_accessed |-> t]

\* MemoryBank._load: the map in a complete file, {} when there is no file or
\* json.load raises
_load(file) == IF file.state = "ok" THEN file.content ELSE EmptyDict

\* the file after a completed MemoryBank._persist
_persist(d) == [state |-> "ok", content |-> d]

\* the file between open(path, 'w') and the end of json.dump
Truncated == [state |-> "truncated", content |-> EmptyDict]

\* MemoryBank.get_user_memory: user_memory is read before the default record
\* is stored, so a first access returns a fresh {} and later ones the stored
\* dict, which is the object that last_accessed is then written into
get_user_memory(b, user_id, t) ==
    LET present == Has(b.data, user_id)
        d1 == IF present THEN b.data ELSE Put(b.data, user_id, DefaultRecord(t))
        d2 == Put(d1, user_id, Put(d1[user_id], "last_accessed", t))
    IN  [data |-> d2,
         access_timestamps |-> Put(b.access_timestamps, user_id, t),
         ret |-> IF present THEN d2[user_id] ELSE EmptyDict]

ListKeys == {"plans", "progress_history"}

\* the keys whose values are dicts
DictKeys == {"profile", "preferences", "interaction_patterns", "compaction_metadata",
             "progress_trends", "essential_metadata"}

\* one turn of the loop of lines 91-105: the value stored under key afterwards
UpdatedValue(record, key, value) ==
    IF key \in ListKeys
    THEN LET extended == Get(record, key, << >>) \o value
         IN  IF Len(extended) > RetentionCap THEN LastN(extended, RetentionCap)
             ELSE extended
    ELSE IF key \in DictKeys /\ Has(record, key)
    THEN value @@ record[key]
    ELSE value

\* lines 91-107 on one record
Merged(record, memory_updates, t) ==
    Put([k \in DOMAIN record \cup DOMAIN memory_updates |->
            IF k \in DOMAIN memory_updates
            THEN UpdatedValue(record, k, memory_updates[k])
            ELSE record[k]],
        "last_updated", t)

\* MemoryBank.update_user_memory, up to its call of _persist
update_user_memory(b, user_id, memory_updates, t) ==
    LET d1 == IF Has(b.data, user_id) THEN b.data
              ELSE Put(b.data, user_id, DefaultRecord(t))
    IN  [b EXCEPT !.data = Put(d1, user_id, Merged(d1[user_id], memory_updates, t))]

\* MemoryBank.add_plan, up to its call of _persist
add_plan(b, user_id, kind, t) ==
    LET b1 == IF Has(b.data, user_id) THEN b
              ELSE LET g == get_user_memory(b, user_id, t)
                   IN  [data |-> g.data, access_timestamps |-> g.access_timestamps]
        record == b1.data[user_id]
    IN  [b1 EXCEPT !.data = Put(b1.data, user_id,
                                Put(record, "plans",
                                    Append(record.plans, PlanRecord(kind, t))))]

\* MemoryBank.add_progress_record, up to its call of _persist
MemoryBank_add_progress_record(b, user_id, m, t) ==
    LET b1 == IF Has(b.data, user_id) THEN b
              ELSE LET g == get_user_memory(b, user_id, t)
                   IN  [data |-> g.data, access_timestamps |-> g.access_timestamps]
        record == b1.data[user_id]
    IN  [b1 EXCEPT !.data = Put(b1.data, user_id,
                                Put(record, "progress_history",
                                    Append(record.progress_history,
                                           ProgressRecord(m, t))))]

\* sorted(items, key=lambda x: x.get(key, 0)): stable, equal keys keep
\* their order
SortedByStamp(items, key) ==
    LET idx == 1..Len(items)
        stamp(x) == Get(x, key, 0)
        rank(i) == Cardinality({j \in idx : stamp(items[j]) < stamp(items[i])})
                   + Cardinality({j \in idx : j < i /\ stamp(items[j]) = stamp(items[i])})
    IN  [r \in idx |-> items[CHOOSE i \in idx : rank(i) + 1 = r]]

\* lines 194-206 on one record
Trimmed(record) ==
    LET r1 == IF Has(record, "plans") /\ Len(record.plans) > BankMaxPlans
              THEN Put(record, "plans",
                       LastN(SortedByStamp(record.plans, "created_at"), BankMaxPlans))
              ELSE record
    IN  IF Has(r1, "progress_history") /\ Len(r1.progress_history) > BankMaxProgress
        THEN Put(r1, "progress_history",
                 LastN(SortedByStamp(r1.progress_history, "timestamp"),
                       BankMaxProgress))
        ELSE r1

\* MemoryBank.compact_user_memory made get-or-create like the other operations
CompactCreatingDefault(b, user_id) ==
    LET d1 == IF Has(b.data, user_id) THEN b.data
              ELSE Put(b.data, user_id, DefaultRecord(0))
    IN  [b EXCEPT !.data = Put(d1, user_id, Trimmed(d1[user_id]))]

\* MemoryBank.compact_user_memory with its default limits, up to its call of
\* _persist; a user without a record is left without one
MemoryBank_compact_user_memory(b, user_id) ==
    IF ~Has(b.data, user_id) THEN b
    ELSE [b EXCEPT !.data = Put(b.data, user_id, Trimmed(b.data[user_id]))]

\* MemoryBank.delete_user_memory, up to its call of _persist
delete_user_memory(b, user_id) ==
    IF ~Has(b.data, user_id) THEN b
    ELSE [data |-> Del(b.data, user_id),
          access_timestamps |-> Del(b.access_timestamps, user_id)]

---------------------------------------------------------------------------
(* One caller of a MemoryBank.  An operation that persists is two steps:  *)
(* the handler up to open(path, 'w'), which empties the file, and the end *)
(* of json.dump, which either completes the file or raises and is logged. *)
(* The process can die between any two steps; a new MemoryBank then loads *)
(* what the file holds.                                                    *)

Users == {"u1", "u2"}

Bank == [data |-> data, access_timestamps |-> access_timestamps]

\* a record grown to n plans and n progress entries by add_plan and
\* add_progress_record
GrownRecord(n) ==
    [DefaultRecord(FirstPlanDay) EXCEPT
        !.plans = [i \in 1..n |-> PlanRecord("small", FirstPlanDay + i)],
        !.progress_history = [i \in 1..n |-> ProgressRecord(MetricsOf(i), FirstPlanDay + i)]]

\* the maps a bank starts from: empty, one user one entry short of the
\* retention cap or at it, and two users
BankMaps ==
    {EmptyDict,
     "u1" :> GrownRecord(RetentionCap - 1),
     "u1" :> GrownRecord(RetentionCap),
     ("u1" :> GrownRecord(RetentionCap)) @@ ("u2" :> DefaultRecord(FirstPlanDay))}

\* the updates a caller passes to update_user_memory
UpdateChoices ==
    {[progress_history |-> <<ProgressRecord(MetricsOf(1), now)>>,
      profile |-> [goals |-> "learn"]]}

InitBank ==
    /\ data \in BankMaps
    /\ access_timestamps = EmptyDict
    /\ disk = IF data = EmptyDict THEN NoFile ELSE _persist(data)
    /\ last = NoOp
    /\ pc = "idle"
    /\ th = << >>
    /\ now = NowStart
    /\ steps = 0
    /\ rec = EmptyDict
    /\ call = NoCall
    /\ prev = NoCall
    /\ max_memory_size = DefaultMaxMemorySize
    /\ ExtUnused

\* the caller runs operation op on user_id up to the point where the file is
\* opened for writing, if the operation persists
Operate(op, user_id, b, ret, persists) ==
    /\ pc = "idle"
    /\ steps < MaxBankSteps
    /\ data' = b.data
    /\ access_timestamps' = b.access_timestamps
    /\ last' = [op |-> op, user |-> user_id, ret |-> ret, before |-> data,
                blob |-> disk, wrote |-> IF persists THEN "pending" ELSE "none",
                at |-> now]
    /\ disk' = IF persists THEN Truncated ELSE disk
    /\ pc' = IF persists THEN "writing" ELSE "idle"
    /\ steps' = steps + 1
    /\ UNCHANGED <<now, compvars, extvars, th>>

GetUserMemory(user_id) ==
    LET g == get_user_memory(Bank, user_id, now)
    IN  Operate("get_user_memory", user_id, g, g.ret, FALSE)

UpdateUserMemory(user_id, memory_updates) ==
    Operate("update_user_memory", user_id,
            update_user_memory(Bank, user_id, memory_updates, now), EmptyDict, TRUE)

AddPlan(user_id) ==
    Operate("add_plan", user_id, add_plan(Bank, user_id, "small", now), EmptyDict, TRUE)

AddProgressRecord(user_id, m) ==
    Operate("add_progress_record", user_id,
            MemoryBank_add_progress_record(Bank, user_id, m, now), EmptyDict, TRUE)

CompactStoredMemory(user_id) ==
    Operate("compact_user_memory", user_id,
            MemoryBank_compact_user_memory(Bank, user_id), EmptyDict, Has(data, user_id))

DeleteUserMemory(user_id) ==
    Operate("delete_user_memory", user_id,
            delete_user_memory(Bank, user_id), EmptyDict, Has(data, user_id))

\* json.dump ran to its end and the file was closed
PersistCompletes ==
    /\ pc = "writing"
    /\ disk' = _persist(data)
    /\ last' = [last EXCEPT !.wrote = "ok"]
    /\ pc' = "idle"
    /\ UNCHANGED <<data, access_timestamps, now, steps, compvars, extvars, th>>

\* json.dump raised; lines 42-43 log it and the handler goes on
PersistRaises ==
    /\ pc = "writing"
    /\ last' = [last EXCEPT !.wrote = "failed"]
    /\ pc' = "idle"
    /\ UNCHANGED <<data, access_timestamps, disk, now, steps, compvars, extvars, th>>

\* the process dies and a new MemoryBank is constructed on the same path
CrashAndRestart ==
    /\ steps < MaxBankSteps
    /\ data' = _load(disk)
    /\ access_timestamps' = EmptyDict
    /\ last' = [op |-> "restart", user |-> NoneStr, ret |-> EmptyDict, before |-> data,
                blob |-> IF pc = "writing" THEN last.blob ELSE disk,
                wrote |-> IF pc = "writing" THEN "interrupted" ELSE "none",
                at |-> now]
    /\ pc' = "idle"
    /\ steps' = steps + 1
    /\ UNCHANGED <<disk, now, compvars, extvars, th>>

\* time passes between two operations
BankTick ==
    /\ pc = "idle"
    /\ steps < MaxBankSteps
    /\ now' = now + 1
    /\ steps' = steps + 1
    /\ UNCHANGED <<compvars, extvars, bankvars>>

NextBank ==
    \/ \E user_id \in Users : GetUserMemory(user_id)
    \/ \E user_id \in Users : \E memory_updates \in UpdateChoices :
           UpdateUserMemory(user_id, memory_updates)
    \/ \E user_id \in Users : AddPlan(user_id)
    \/ \E user_id \in Users : AddProgressRecord(user_id, MetricsOf(2))
    \/ \E user_id \in Users : CompactStoredMemory(user_id)
    \/ \E user_id \in Users : DeleteUserMemory(user_id)
    \/ PersistCompletes
    \/ PersistRaises
    \/ CrashAndRestart
    \/ BankTick

SpecBank == InitBank /\ [][NextBank]_vars

---------------------------------------------------------------------------
(* Two threads calling into one MemoryBank for the same user.  MemoryBank  *)
(* takes no lock, so a thread can be preempted between any two statements; *)
(* a statement that reads a list and one that assigns it are two steps.    *)
(* Each thread appends one progress entry of its own, through              *)
(* update_user_memory or through add_progress_record.                      *)

Threads == {1, 2}

SharedUser == "u1"

\* the progress entry thread i appends
EntryOf(i) == ProgressRecord(MetricsOf(i), NowStart)

\* the whole call of thread i, run without interruption on bank b
CallOf(i, b) ==
    IF th[i].op = "update_user_memory"
    THEN update_user_memory(b, SharedUser, [progress_history |-> <<EntryOf(i)>>], NowStart)
    ELSE MemoryBank_add_progress_record(b, SharedUser, MetricsOf(i), NowStart)

InitThreads ==
    /\ data \in {EmptyDict, SharedUser :> GrownRecord(RetentionCap - 1),
                 SharedUser :> GrownRecord(RetentionCap)}
    /\ access_timestamps = EmptyDict
    /\ disk = IF data = EmptyDict THEN NoFile ELSE _persist(data)
    /\ last = [NoOp EXCEPT !.before = data]
    /\ pc = "idle"
    /\ th \in [Threads -> {[op |-> op, pc |-> "start", tmp |-> << >>] :
                              op \in {"update_user_memory", "add_progress_record"}}]
    /\ now = NowStart
    /\ steps = 0
    /\ rec = EmptyDict
    /\ call = NoCall
    /\ prev = NoCall
    /\ max_memory_size = DefaultMaxMemorySize
    /\ ExtUnused

Goto(i, label) == th' = [th EXCEPT ![i].pc = label]

History1 == data[SharedUser].progress_history

SetHistory(h) == data' = Put(data, SharedUser, Put(data[SharedUser], "progress_history", h))

\* lines 80, 113, 128: if user_id not in self.data
TCheck(i) ==
    /\ th[i].pc = "start"
    /\ Goto(i, IF ~Has(data, SharedUser) THEN "create"
               ELSE IF th[i].op = "update_user_memory" THEN "extend" ELSE "append")
    /\ UNCHANGED <<data, access_timestamps, disk>>

\* lines 81-89, and get_user_memory called from line 129: the default record
\* is stored, over whatever another thread has stored meanwhile in the
\* first case
TCreate(i) ==
    /\ th[i].pc = "create"
    /\ IF th[i].op = "update_user_memory"
       THEN /\ data' = Put(data, SharedUser, DefaultRecord(now))
            /\ UNCHANGED access_timestamps
            /\ Goto(i, "extend")
       ELSE LET g == get_user_memory(Bank, SharedUser, now)
            IN  /\ data' = g.data
                /\ access_timestamps' = g.access_timestamps
                /\ Goto(i, "append")
    /\ UNCHANGED disk

\* line 96: self.data[user_id][key].extend(value)
TExtend(i) ==
    /\ th[i].pc = "extend"
    /\ SetHistory(History1 \o <<EntryOf(i)>>)
    /\ Goto(i, "test")
    /\ UNCHANGED <<access_timestamps, disk>>

\* line 98: if len(self.data[user_id][key]) > 20
TTest(i) ==
    /\ th[i].pc = "test"
    /\ Goto(i, IF Len(History1) > RetentionCap THEN "slice" ELSE "finish")
    /\ UNCHANGED <<data, access_timestamps, disk>>

\* line 99, right-hand side: self.data[user_id][key][-20:]
TSlice(i) ==
    /\ th[i].pc = "slice"
    /\ th' = [th EXCEPT ![i].pc = "store", ![i].tmp = LastN(History1, RetentionCap)]
    /\ UNCHANGED <<data, access_timestamps, disk>>

\* line 99, the assignment
TStore(i) ==
    /\ th[i].pc = "store"
    /\ SetHistory(th[i].tmp)
    /\ Goto(i, "finish")
    /\ UNCHANGED <<access_timestamps, disk>>

\* line 137: self.data[user_id]["progress_history"].append(progress_record)
TAppend(i) ==
    /\ th[i].pc = "append"
    /\ SetHistory(Append(History1, EntryOf(i)))
    /\ Goto(i, "finish")
    /\ UNCHANGED <<access_timestamps, disk>>

\* lines 107-108 and 138: last_updated is stamped by update_user_memory, and
\* the map is persisted
TFinish(i) ==
    /\ th[i].pc = "finish"
    /\ data' = IF th[i].op = "update_user_memory"
               THEN Put(data, SharedUser, Put(data[SharedUser], "last_updated", now))
               ELSE data
    /\ disk' = _persist(data')
    /\ Goto(i, "done")
    /\ UNCHANGED access_timestamps

ThreadStep(i) ==
    /\ \/ TCheck(i)
       \/ TCreate(i)
       \/ TExtend(i)
       \/ TTest(i)
       \/ TSlice(i)
       \/ TStore(i)
       \/ TAppend(i)
       \/ TFinish(i)
    /\ UNCHANGED <<last, pc, now, steps, compvars, extvars>>

NextThreads == \E i \in Threads : ThreadStep(i)

SpecThreads == InitThreads /\ [][NextThreads]_vars

---------------------------------------------------------------------------
(* The producer of main.py, create_plan (lines 66-74): it reads the user's *)
(* record from the bank, sets the profile, compacts the record and writes  *)
(* the compacted record back with update_user_memory.  Line 73 names the   *)
(* compactor's method compact_memory, which ContextCompactor does not      *)
(* have: as written the handler raises AttributeError there.  WriteBack is *)
(* the handler with the call bound to compact_user_memory, the method the  *)
(* class has.                                                              *)

Profiles == {[goals |-> "learn"], [goals |-> "exam"]}

\* the records a producer finds stored: no, one or many plans, with and
\* without a progress history, preferences and interaction patterns
StoredRecords ==
    {InitRecord(np, "small", 0, h[1], h[2], "same", rich, "learn") :
         np \in {0, 1, MaxPlans - 1}, h \in HistoryShapes, rich \in BOOLEAN}

InitWriteBack ==
    /\ data \in {EmptyDict} \cup {SharedUser :> r : r \in StoredRecords}
    /\ access_timestamps = EmptyDict
    /\ disk = IF data = EmptyDict THEN NoFile ELSE _persist(data)
    /\ last = NoOp
    /\ pc = "idle"
    /\ th = << >>
    /\ now = NowStart
    /\ steps = 0
    /\ rec = EmptyDict
    /\ call = NoCall
    /\ prev = NoCall
    /\ max_memory_size = DefaultMaxMemorySize
    /\ ExtUnused

\* lines 71-72: what get_user_memory returned, with the profile set; the
\* stored record itself unless this is the user's first access
CurrentMemory(user_id, profile) ==
    Put(get_user_memory(Bank, user_id, now).ret, "profile", profile)

\* the bank after lines 71-72: the profile lands in the stored record when
\* the returned dict is the stored one
AfterRead(user_id, profile) ==
    LET g == get_user_memory(Bank, user_id, now)
    IN  [data |-> IF Has(data, user_id)
                  THEN Put(g.data, user_id, CurrentMemory(user_id, profile))
                  ELSE g.data,
         access_timestamps |-> g.access_timestamps]

\* lines 71-73 as written: the handler ends in AttributeError
CreatePlanAsWritten(user_id, profile) ==
    /\ pc = "idle"
    /\ steps < MaxBankSteps
    /\ data' = AfterRead(user_id, profile).data
    /\ access_timestamps' = AfterRead(user_id, profile).access_timestamps
    /\ last' = [op |-> "create_plan", user |-> user_id, ret |-> EmptyDict,
                before |-> data, blob |-> disk, wrote |-> "none", at |-> now]
    /\ steps' = steps + 1
    /\ UNCHANGED <<disk, pc, th, now, compvars, extvars>>

\* lines 71-74 with the compactor called: read, compact, write back.  The
\* compactor works on the stored dict when the user had a record, so what it
\* writes in place is in the store before update_user_memory merges the
\* compacted record into it; a compaction that raises ends the handler
WriteBack(user_id, profile) ==
    LET c == compact_user_memory(CurrentMemory(user_id, profile), now)
        read == AfterRead(user_id, profile)
        stored == IF Has(data, user_id)
                  THEN [read EXCEPT !.data = Put(read.data, user_id, c.after)]
                  ELSE read
        written == update_user_memory(stored, user_id, c.out, now)
        raised == c.status = "raised"
    IN  /\ pc = "idle"
        /\ steps < MaxBankSteps
        /\ call' = c @@ [n |-> call.n + 1]
        /\ prev' = call
        /\ data' = IF raised THEN stored.data ELSE written.data
        /\ access_timestamps' = read.access_timestamps
        /\ last' = [op |-> "write_back", user |-> user_id, ret |-> EmptyDict,
                    before |-> data, blob |-> disk,
                    wrote |-> IF raised THEN "none" ELSE "pending", at |-> now]
        /\ disk' = IF raised THEN disk ELSE Truncated
        /\ pc' = IF raised THEN "idle" ELSE "writing"
        /\ steps' = steps + 1
        /\ UNCHANGED <<th, now, rec, max_memory_size, extvars>>

NextWriteBack ==
    \/ \E profile \in Profiles : CreatePlanAsWritten(SharedUser, profile)
    \/ \E profile \in Profiles : WriteBack(SharedUser, profile)
    \/ PersistCompletes
    \/ PersistRaises

SpecWriteBack == InitWriteBack /\ [][NextWriteBack]_vars

---------------------------------------------------------------------------
(* InMemorySessionService (core/session_service.py).  Every public method *)
(* runs under self.lock, a threading.Lock, which is not reentrant: a       *)
(* thread that acquires it while holding it waits for ever.  A method that *)
(* holds the lock from its first statement to its last is one step;        *)
(* _run_cleanup, which is called both without the lock (create_session)    *)
(* and with it (get_session_stats), is a step of its own.                  *)

session_timeout == 3600
cleanup_interval == 300

Callers == {1, 2}

\* a caller that is not inside the service
Outside == [pc |-> "idle", from |-> "none", t |-> 0]

\* InMemorySessionService._is_expired at time t
_is_expired(session, t) == (t - Get(session, "last_accessed", 0)) > session_timeout

\* the dict create_session stores
NewSession(sid, t) ==
    [user_id |-> "u1", created_at |-> t, last_accessed |-> t, state |-> EmptyDict,
     metadata |-> [session_id |-> sid, active |-> TRUE]]

\* the keys and values a caller writes into the state of a session
StateKeys == {"plan"}
StateValues == {"p1"}

\* the states a caller replaces the state of a session by
FullStates == {[step |-> "s1"]}

InitSessions ==
    /\ sessions = << >>
    /\ lock = 0
    /\ last_cleanup = NowStart
    /\ sth = [c \in Callers |-> Outside]
    /\ lapsed = {}
    /\ sret = NoGet
    /\ SupervisorUnused
    /\ BankUnused
    /\ now = NowStart
    /\ steps = 0
    /\ rec = EmptyDict
    /\ call = NoCall
    /\ prev = NoCall
    /\ max_memory_size = DefaultMaxMemorySize

\* caller c can enter a method: it is outside the service and the lock is free
CanEnter(c) == sth[c].pc = "idle" /\ lock = 0 /\ steps < MaxSessionSteps

\* the session ids a caller may name: the stored ones
KnownIds == DOMAIN sessions

SessionFrame == UNCHANGED <<now, compvars, bankvars, supvars>>

\* create_session up to its call of _run_cleanup; uuid4 gives an id no
\* session has had, here one more than the number of operations so far
create_session(c) ==
    /\ CanEnter(c)
    /\ sessions' = ((steps + 1) :> NewSession(steps + 1, now)) @@ sessions
    /\ sth' = [sth EXCEPT ![c] = [pc |-> "cleanup", from |-> "create", t |-> 0]]
    /\ steps' = steps + 1
    /\ UNCHANGED <<lock, last_cleanup, lapsed, sret>>
    /\ SessionFrame

\* get(session_id): an expired session is deleted and None is returned, a
\* live one has its last_accessed refreshed; the call notes whether the
\* session had been idle for longer than the timeout at some earlier time
SessionGet(c, sid) ==
    /\ CanEnter(c)
    /\ IF ~Has(sessions, sid)
       THEN /\ sret' = [sid |-> sid, found |-> FALSE, late |-> sid \in lapsed]
            /\ UNCHANGED sessions
       ELSE IF _is_expired(sessions[sid], now)
       THEN /\ sessions' = Del(sessions, sid)
            /\ sret' = [sid |-> sid, found |-> FALSE, late |-> sid \in lapsed]
       ELSE /\ sessions' = [sessions EXCEPT ![sid].last_accessed = now]
            /\ sret' = [sid |-> sid, found |-> TRUE, late |-> sid \in lapsed]
    /\ steps' = steps + 1
    /\ UNCHANGED <<lock, last_cleanup, sth, lapsed>>
    /\ SessionFrame

\* update_state(session_id, key, value): no expiry test
update_state(c, sid, key, value) ==
    /\ CanEnter(c)
    /\ sessions' = IF Has(sessions, sid)
                   THEN [sessions EXCEPT ![sid].state = Put(@, key, value),
                                         ![sid].last_accessed = now]
                   ELSE sessions
    /\ steps' = steps + 1
    /\ UNCHANGED <<lock, last_cleanup, sth, lapsed, sret>>
    /\ SessionFrame

\* update_full_state(session_id, new_state): no expiry test
update_full_state(c, sid, v) ==
    /\ CanEnter(c)
    /\ sessions' = IF Has(sessions, sid)
                   THEN [sessions EXCEPT ![sid].state = v, ![sid].last_accessed = now]
                   ELSE sessions
    /\ steps' = steps + 1
    /\ UNCHANGED <<lock, last_cleanup, sth, lapsed, sret>>
    /\ SessionFrame

\* update_metadata(session_id, metadata_updates): no expiry test
update_metadata(c, sid) ==
    /\ CanEnter(c)
    /\ sessions' = IF Has(sessions, sid)
                   THEN [sessions EXCEPT ![sid].metadata = [active |-> FALSE] @@ @,
                                         ![sid].last_accessed = now]
                   ELSE sessions
    /\ steps' = steps + 1
    /\ UNCHANGED <<lock, last_cleanup, sth, lapsed, sret>>
    /\ SessionFrame

\* delete(session_id)
SessionDelete(c, sid) ==
    /\ CanEnter(c)
    /\ sessions' = IF Has(sessions, sid) THEN Del(sessions, sid) ELSE sessions
    /\ steps' = steps + 1
    /\ UNCHANGED <<lock, last_cleanup, sth, lapsed, sret>>
    /\ SessionFrame

\* get_session_stats, line 194: with self.lock
StatsEnter(c) ==
    /\ CanEnter(c)
    /\ lock' = c
    /\ sth' = [sth EXCEPT ![c] = [pc |-> "cleanup", from |-> "stats", t |-> 0]]
    /\ steps' = steps + 1
    /\ UNCHANGED <<sessions, last_cleanup, lapsed, sret>>
    /\ SessionFrame

\* where _run_cleanup returns to
AfterCleanup(c) == IF sth[c].from = "stats" THEN "stats_body" ELSE "idle"

\* _run_cleanup, lines 169-171: return when the interval has not passed,
\* otherwise go on to acquire the lock
CleanupCheck(c) ==
    /\ sth[c].pc = "cleanup"
    /\ sth' = [sth EXCEPT ![c].pc = IF (now - last_cleanup) < cleanup_interval
                                    THEN AfterCleanup(c) ELSE "cleanup_lock",
                          ![c].t = now]
    /\ UNCHANGED <<sessions, lock, last_cleanup, lapsed, sret, steps>>
    /\ SessionFrame

\* _run_cleanup, lines 173-185: the lock is acquired, the expired sessions
\* are deleted, last_cleanup is set, the lock is released
CleanupLocked(c) ==
    /\ sth[c].pc = "cleanup_lock"
    /\ lock = 0
    /\ sessions' = [sid \in {i \in DOMAIN sessions : ~_is_expired(sessions[i], now)} |->
                       sessions[sid]]
    /\ last_cleanup' = sth[c].t
    /\ sth' = [sth EXCEPT ![c].pc = AfterCleanup(c)]
    /\ UNCHANGED <<lock, lapsed, sret, steps>>
    /\ SessionFrame

\* get_session_stats, lines 197-210: the statistics are computed and the
\* lock is released
StatsReturn(c) ==
    /\ sth[c].pc = "stats_body"
    /\ lock' = 0
    /\ sth' = [sth EXCEPT ![c] = Outside]
    /\ UNCHANGED <<sessions, last_cleanup, lapsed, sret, steps>>
    /\ SessionFrame

\* the steps the clock can take between two operations
ClockSteps == {1, cleanup_interval, session_timeout + 1}

\* time passes; the sessions that have now been idle for longer than the
\* timeout are noted
SessionTick(d) ==
    /\ steps < MaxSessionSteps
    /\ now' = now + d
    /\ lapsed' = lapsed \cup {sid \in DOMAIN sessions : _is_expired(sessions[sid], now + d)}
    /\ steps' = steps + 1
    /\ UNCHANGED <<sessions, lock, last_cleanup, sth, sret, compvars, bankvars, supvars>>

NextSessions ==
    \/ \E c \in Callers : create_session(c)
    \/ \E c \in Callers : \E sid \in KnownIds : SessionGet(c, sid)
    \/ \E c \in Callers : \E sid \in KnownIds : \E key \in StateKeys : \E value \in StateValues :
           update_state(c, sid, key, value)
    \/ \E c \in Callers : \E sid \in KnownIds : \E v \in FullStates :
           update_full_state(c, sid, v)
    \/ \E c \in Callers : \E sid \in KnownIds : update_metadata(c, sid)
    \/ \E c \in Callers : \E sid \in KnownIds : SessionDelete(c, sid)
    \/ \E c \in Callers : StatsEnter(c)
    \/ \E c \in Callers : CleanupCheck(c)
    \/ \E c \in Callers : CleanupLocked(c)
    \/ \E c \in Callers : StatsReturn(c)
    \/ \E d \in ClockSteps : SessionTick(d)

SpecSessions == InitSessions /\ [][NextSessions]_vars

---------------------------------------------------------------------------
(* LoopSupervisor (agents/loop_supervisor.py).  One controlling thread     *)
(* calls start_optimization_loop and stop_all_loops; each supervisor       *)
(* thread it starts runs _supervisor_loop.  No lock protects status,       *)
(* _stop_event, active_loops or _thread, so every read and write of them   *)
(* is a step of its own.  loops[i] is the position of the i-th thread      *)
(* started, thread the index _thread refers to (0 for None).               *)

LoopSessions == {"s1", "s2"}

Idle == [pc |-> "idle"]

\* Thread.is_alive()
is_alive(i) == i \in DOMAIN loops /\ loops[i] # "exited"

\* the supervisor threads that have not returned from _supervisor_loop
AliveLoops == {i \in DOMAIN loops : is_alive(i)}

InitSupervisor ==
    /\ status = "stopped"
    /\ stop_event = FALSE
    /\ active_loops = {}
    /\ thread = 0
    /\ loops = << >>
    /\ ctl = Idle
    /\ SessionsUnused
    /\ BankUnused
    /\ now = NowStart
    /\ steps = 0
    /\ rec = EmptyDict
    /\ call = NoCall
    /\ prev = NoCall
    /\ max_memory_size = DefaultMaxMemorySize

SupervisorFrame == UNCHANGED <<now, compvars, bankvars, sessvars>>

\* start_optimization_loop, lines 70-81: a session that has a loop is
\* refused, otherwise its loop is registered
StartBegin(session_id) ==
    /\ ctl.pc = "idle"
    /\ steps < MaxSupervisorCalls
    /\ steps' = steps + 1
    /\ IF session_id \in active_loops
       THEN UNCHANGED <<active_loops, ctl>>
       ELSE /\ active_loops' = active_loops \cup {session_id}
            /\ ctl' = [pc |-> "start_test"]
    /\ UNCHANGED <<status, stop_event, thread, loops>>
    /\ SupervisorFrame

\* start_optimization_loop, line 83: the status is read
StartTest ==
    /\ ctl.pc = "start_test"
    /\ ctl' = [pc |-> IF status = "stopped" THEN "start_thread" ELSE "set_running"]
    /\ UNCHANGED <<status, stop_event, active_loops, thread, loops, steps>>
    /\ SupervisorFrame

\* _start_supervisor_thread, lines 91-93: the event is cleared and a new
\* thread is started at the head of _supervisor_loop
_start_supervisor_thread ==
    /\ ctl.pc = "start_thread"
    /\ stop_event' = FALSE
    /\ loops' = Append(loops, "test_event")
    /\ thread' = Len(loops) + 1
    /\ ctl' = [pc |-> "set_running"]
    /\ UNCHANGED <<status, active_loops, steps>>
    /\ SupervisorFrame

\* start_optimization_loop, lines 86-87
SetRunning ==
    /\ ctl.pc = "set_running"
    /\ status' = "running"
    /\ ctl' = Idle
    /\ UNCHANGED <<stop_event, active_loops, thread, loops, steps>>
    /\ SupervisorFrame

\* stop_all_loops, lines 229-233: the status, the event and the loops are
\* reset; a live thread is joined
stop_all_loops ==
    /\ ctl.pc = "idle"
    /\ steps < MaxSupervisorCalls
    /\ steps' = steps + 1
    /\ status' = "stopped"
    /\ stop_event' = TRUE
    /\ active_loops' = {}
    /\ ctl' = IF thread # 0 /\ is_alive(thread) THEN [pc |-> "join"] ELSE Idle
    /\ UNCHANGED <<thread, loops>>
    /\ SupervisorFrame

\* join(timeout=5.0) returns because the thread has ended
JoinReturns ==
    /\ ctl.pc = "join"
    /\ ~is_alive(thread)
    /\ ctl' = Idle
    /\ UNCHANGED <<status, stop_event, active_loops, thread, loops, steps>>
    /\ SupervisorFrame

\* join(timeout=5.0) returns because five seconds have passed while the
\* thread was inside an optimization cycle
JoinTimesOut ==
    /\ ctl.pc = "join"
    /\ loops[thread] = "cycle"
    /\ ctl' = Idle
    /\ UNCHANGED <<status, stop_event, active_loops, thread, loops, steps>>
    /\ SupervisorFrame

\* _supervisor_loop, line 100, first operand: not self._stop_event.is_set()
LoopTestEvent(i) ==
    /\ loops[i] = "test_event"
    /\ loops' = [loops EXCEPT ![i] = IF stop_event THEN "exited" ELSE "test_status"]
    /\ UNCHANGED <<status, stop_event, active_loops, thread, ctl, steps>>
    /\ SupervisorFrame

\* _supervisor_loop, line 100, second operand: self.status == RUNNING
LoopTestStatus(i) ==
    /\ loops[i] = "test_status"
    /\ loops' = [loops EXCEPT ![i] = IF status = "running" THEN "cycle" ELSE "exited"]
    /\ UNCHANGED <<status, stop_event, active_loops, thread, ctl, steps>>
    /\ SupervisorFrame

\* _supervisor_loop, lines 102-106: the optimization cycles of this round
LoopCycle(i) ==
    /\ loops[i] = "cycle"
    /\ loops' = [loops EXCEPT ![i] = "wait"]
    /\ UNCHANGED <<status, stop_event, active_loops, thread, ctl, steps>>
    /\ SupervisorFrame

\* _supervisor_loop, line 108: _stop_event.wait(60) returns, the event set
\* or the minute over
LoopWait(i) ==
    /\ loops[i] = "wait"
    /\ loops' = [loops EXCEPT ![i] = "test_event"]
    /\ UNCHANGED <<status, stop_event, active_loops, thread, ctl, steps>>
    /\ SupervisorFrame

NextSupervisor ==
    \/ \E session_id \in LoopSessions : StartBegin(session_id)
    \/ StartTest
    \/ _start_supervisor_thread
    \/ SetRunning
    \/ stop_all_loops
    \/ JoinReturns
    \/ JoinTimesOut
    \/ \E i \in DOMAIN loops : LoopTestEvent(i)
    \/ \E i \in DOMAIN loops : LoopTestStatus(i)
    \/ \E i \in DOMAIN loops : LoopCycle(i)
    \/ \E i \in DOMAIN loops : LoopWait(i)

SpecSupervisor == InitSupervisor /\ [][NextSupervisor]_vars

---------------------------------------------------------------------------
(* Properties *)

Plans(memory) == Get(memory, "plans", << >>)
History(memory) == Get(memory, "progress_history", << >>)
Trends(memory) == Get(memory, "progress_trends", EmptyDict)

Returned == call.status \in {"ok", "caught"}

\* C1: plan tiering is idempotent: compacting the record a compaction
\* returned yields the same plans as the first compaction did
C1_PlanTieringIdempotent ==
    (prev.status = "ok" /\ call.status = "ok" /\ call.inp = prev.out)
        => Plans(call.out) = Plans(prev.out)

\* the plans at the positions S are the most recent ones of the list
MostRecent(plans, S) ==
    \A i \in S : \A j \in (1..Len(plans)) \ S : plans[i].created_at >= plans[j].created_at

\* C2: retention: when the record has more than 5 plans, plan tiering leaves
\* the 3 plans with the greatest created_at in the list exactly as they were
C2_RecentPlansRetained ==
    (call.status # "none" /\ Len(Plans(call.inp)) > PlanCompactThreshold
         /\ ~CompactPlansRaises(call.inp))
        => \E S \in SUBSET (1..Len(Plans(call.inp))) :
               /\ Cardinality(S) = RecentPlansKept
               /\ MostRecent(Plans(call.inp), S)
               /\ \A i \in S : InList(Plans(call.inp)[i],
                                      Plans(_compact_plans(call.inp, call.at)))

\* C3: budget monotonicity: the record compact returns never serialises to
\* more bytes than the record it was given
C3_NeverGrows ==
    Returned => SizeRecord(call.out) <= SizeRecord(call.inp)

\* C4: atomicity on error: when a stage raises, compact returns the input
\* record and that record is what it was before the call
C4_AtomicOnError ==
    call.status = "caught" => (call.out = call.inp /\ call.after = call.inp)

\* C5: compact never lets an exception reach its caller
C5_NeverRaises ==
    call.status # "raised"

\* C6: compact works on a copy: after a successful call the caller's input
\* record is what it was before the call
C6_InputUntouched ==
    call.status = "ok" => call.after = call.inp

\* C7: progress tiering: a record with more than 10 progress entries comes
\* back (budget enforcement aside) with exactly the entries of the last seven
\* days, the others counted in progress_trends
C7_ProgressTiered ==
    (Returned /\ ~call.forced /\ Len(History(call.inp)) > ProgressCompactThreshold)
        => /\ History(call.out) = RecentRecords(History(call.inp), call.at)
           /\ SumFn([w \in DOMAIN Trends(call.out) |->
                        Trends(call.out)[w].records_aggregated],
                    DOMAIN Trends(call.out))
                  >= Len(History(call.inp)) - Len(History(call.out))

\* the input's progress entries from before the seven-day window, by position
OldIdx(memory, t) ==
    {i \in 1..Len(History(memory)) : History(memory)[i].timestamp <= t - RecentWindowDays}

OldInWeek(memory, t, w) ==
    {i \in OldIdx(memory, t) : WeekKey(History(memory)[i].timestamp) = w}

TaskSum(memory, S, k) ==
    SumFn([i \in 1..Len(History(memory)) |-> History(memory)[i].metrics[k]], S)

\* the call folded older entries and returned their trends
FoldReturned ==
    call.status = "ok" /\ call.folded > 0 /\ Has(call.out, "progress_trends")

\* C8 as stated: the weekly trend's overall_completion_rate is exactly
\* sum(completed_tasks) / sum(total_tasks) * 100 of the week's older entries
\* (0 without tasks), records_aggregated is their number
C8_TrendExact ==
    FoldReturned =>
        \A w \in DOMAIN call.out.progress_trends :
            LET E == OldInWeek(call.inp, call.at, w)
                tr == call.out.progress_trends[w]
            IN  /\ tr.records_aggregated = Cardinality(E)
                /\ IF TaskSum(call.inp, E, "total_tasks") = 0
                   THEN tr.overall_completion_rate = 0
                   ELSE tr.overall_completion_rate * TaskSum(call.inp, E, "total_tasks")
                            = TaskSum(call.inp, E, "completed_tasks") * 10000

\* C8 amended: the weekly trend's overall_completion_rate is
\* sum(completed_tasks) / sum(total_tasks) * 100 rounded to two decimals
\* (0 without tasks) over exactly the older entries of that week,
\* records_aggregated is their number, and every week of an older entry has
\* a trend
C8_TrendRounded ==
    FoldReturned =>
        /\ DOMAIN call.out.progress_trends =
               {WeekKey(History(call.inp)[i].timestamp) : i \in OldIdx(call.inp, call.at)}
        /\ \A w \in DOMAIN call.out.progress_trends :
               LET E == OldInWeek(call.inp, call.at, w)
                   tr == call.out.progress_trends[w]
               IN  /\ tr.records_aggregated = Cardinality(E)
                   /\ tr.overall_completion_rate =
                          IF TaskSum(call.inp, E, "total_tasks") = 0 THEN 0
                          ELSE RoundDiv(TaskSum(call.inp, E, "completed_tasks") * 10000,
                                        TaskSum(call.inp, E, "total_tasks"))

\* a fold of several entries of one week whose rate is not a whole percentage
C8_Witness ==
    /\ FoldReturned
    /\ \E w \in DOMAIN call.out.progress_trends :
           /\ call.out.progress_trends[w].records_aggregated >= 2
           /\ call.out.progress_trends[w].overall_completion_rate % 100 # 0

\* C9: trends accumulate: a week present in progress_trends stays present and
\* its records_aggregated never decreases, whatever operation comes next
C9_TrendsAccumulate ==
    [][\A w \in DOMAIN Trends(rec) :
           /\ w \in DOMAIN Trends(rec')
           /\ Trends(rec')[w].records_aggregated >= Trends(rec)[w].records_aggregated]_vars

\* C10: no progress entry is lost unfolded: the entries a successful call
\* removed from progress_history are as many as the entries it folded into
\* the trends it returned
C10_RemovedAreFolded ==
    call.status = "ok" =>
        Len(History(call.inp)) - Len(History(call.out)) =
            IF call.folded > 0
            THEN SumFn([w \in DOMAIN Trends(call.out) |->
                           Trends(call.out)[w].records_aggregated],
                       DOMAIN Trends(call.out))
            ELSE 0

\* the stored histogram of preferred learning times of a record
Times(memory) ==
    Get(Get(memory, "interaction_patterns", EmptyDict), "preferred_learning_times", << >>)

\* no tier of the pipeline has anything to do on the record
UnderEveryThreshold(memory) ==
    /\ ~OverBudget(memory)
    /\ Len(Plans(memory)) <= PlanCompactThreshold
    /\ Len(History(memory)) <= ProgressCompactThreshold
    /\ Len(Times(memory)) <= TopTimesKept

\* C11: under-budget no-op: a record under the budget with at most 5 plans,
\* at most 10 progress entries and at most 3 preferred-time entries comes
\* back from compact equal to the input field for field and of the same size
C11_UnderBudgetNoOp ==
    (call.status = "ok" /\ UnderEveryThreshold(call.inp))
        => /\ call.out = call.inp
           /\ SizeRecord(call.out) = SizeRecord(call.inp)

C12_WitnessFits ==
    /\ call.status = "ok"
    /\ call.forced
    /\ ~OverBudget(call.out)

\* the positions of the input histogram whose entries the call kept
KeptTimes == {i \in 1..Len(Times(call.inp)) : InList(Times(call.inp)[i], Times(call.out))}

\* C13: top-k histogram stability: of a histogram of more than 3 entries
\* exactly the 3 entries of highest frequency are kept, among equal
\* frequencies the ones inserted first; a histogram of at most 3 entries is
\* kept unchanged
C13_TopTimesStable ==
    call.status = "ok" =>
        IF Len(Times(call.inp)) <= TopTimesKept
        THEN Times(call.out) = Times(call.inp)
        ELSE /\ Len(Times(call.out)) = TopTimesKept
             /\ Cardinality(KeptTimes) = TopTimesKept
             /\ \A i \in KeptTimes : \A j \in (1..Len(Times(call.inp))) \ KeptTimes :
                    \/ Times(call.inp)[i].freq > Times(call.inp)[j].freq
                    \/ /\ Times(call.inp)[i].freq = Times(call.inp)[j].freq
                       /\ i < j

\* a histogram was cut through a tie: a kept and a dropped entry have the
\* same frequency
C13_Witness ==
    /\ call.status = "ok"
    /\ Len(Times(call.inp)) > TopTimesKept
    /\ \E i \in KeptTimes : \E j \in (1..Len(Times(call.inp))) \ KeptTimes :
           Times(call.inp)[i].freq = Times(call.inp)[j].freq

\* C14: get-or-create: get returns the record stored under the key, on a
\* first access the default record it has just stored
C14_GetReturnsStored ==
    last.op = "get_user_memory" => last.ret = data[last.user]

\* the record a bank operation was about, before and after it
RecordBefore == Get(last.before, last.user, DefaultRecord(now))
RecordAfter == Get(data, last.user, DefaultRecord(now))

Appending == {"update_user_memory", "add_plan", "add_progress_record"}

\* C15: retention cap: after update, add_plan or add_progress_record the
\* plans and the progress history of the record hold at most 20 entries:
\* a 21st entry evicts the oldest
C15_RetentionCap ==
    last.op \in Appending =>
        /\ Len(RecordAfter.plans) <= RetentionCap
        /\ Len(RecordAfter.progress_history) <= RetentionCap

\* C16: write-through: when an operation that changed the in-memory map has
\* returned and its write did not fail, the file holds the in-memory map
C16_WriteThrough ==
    (pc = "idle" /\ last.op \notin {"none", "restart"} /\ last.wrote # "failed"
         /\ data # last.before)
        => disk = _persist(data)

\* C17: crash atomicity: the bank restarted after a crash during a
\* persistence write has loaded either the complete map the file held before
\* the write or the complete new map, never an empty map from a file cut short
C17_CrashAtomic ==
    (last.op = "restart" /\ last.wrote = "interrupted")
        => data \in {_load(last.blob), last.before}

\* the last operation was called for a user the bank held no record of
OnMissingKey == last.op \notin {"none", "restart"} /\ ~Has(last.before, last.user)

Creating == {"get_user_memory", "update_user_memory", "add_plan", "add_progress_record"}

\* C19 as stated: every operation but delete, compact among them, leaves a
\* record stored for a user that had none; delete leaves the store unchanged
C19_NotFoundCreates ==
    OnMissingKey =>
        IF last.op = "delete_user_memory" THEN data = last.before
        ELSE Has(data, last.user)

\* C19: not-found semantics: get, update, add_plan and add_progress_record
\* called for a user without a record store a record for that user that has
\* every field of the default record, created at the time of the call and
\* holding nothing but what the call added, and leave the other records
\* alone; compact and delete leave the store unchanged and write nothing
C19_NotFound ==
    OnMissingKey =>
        IF last.op \in Creating
        THEN /\ Has(data, last.user)
             /\ DOMAIN DefaultRecord(last.at) \subseteq DOMAIN data[last.user]
             /\ data[last.user].created_at = last.at
             /\ Len(data[last.user].plans) = IF last.op = "add_plan" THEN 1 ELSE 0
             /\ Len(data[last.user].progress_history) =
                    IF last.op \in {"add_progress_record", "update_user_memory"} THEN 1 ELSE 0
             /\ \A u \in DOMAIN last.before : data[u] = last.before[u]
        ELSE /\ data = last.before
             /\ last.wrote = "none"

\* compact was called for a user without a record on a bank that holds
\* another user's record
C19_Witness ==
    /\ OnMissingKey
    /\ last.op = "compact_user_memory"
    /\ last.before # EmptyDict

AllDone == DOMAIN th = Threads /\ \A i \in Threads : th[i].pc = "done"

\* the map after the two calls run one after the other, thread i first
Sequential(i, j) == CallOf(j, CallOf(i, [data |-> last.before,
                                         access_timestamps |-> EmptyDict])).data

\* C18: mutating operations on one key are serialized: when two threads
\* have each finished an update or an append on the same user, the stored
\* map is the one that results from running the two calls in some order, so
\* the entry of neither is lost
C18_Serialized ==
    AllDone => data \in {Sequential(1, 2), Sequential(2, 1)}

\* C20: write-back replaces the record: after a producer has read the
\* record, compacted it and written the compacted record back, the stored
\* plans and progress history are those of the compacted record, no entry
\* duplicated or restored
C20_WriteBackReplaces ==
    (last.op = "write_back" /\ call.status = "ok")
        => /\ Plans(data[last.user]) = Plans(call.out)
           /\ History(data[last.user]) = History(call.out)

\* C21: planId uniqueness: no two plan entries of a stored record have the
\* same plan_id, also when two add_plan calls fall into the same clock second
C21_PlanIdUnique ==
    \A u \in DOMAIN data :
        \A i, j \in 1..Len(data[u].plans) :
            i # j => data[u].plans[i].plan_id # data[u].plans[j].plan_id

\* a plan entry is either summarised or detailed, never both
Exclusive(plan) ==
    /\ Get(plan, "compacted", FALSE) => (~Has(plan, "plan_data") /\ Has(plan, "summary"))
    /\ Has(plan, "plan_data") => ~Get(plan, "compacted", FALSE)

\* C22: PlanEntry exclusivity: in every record compact returns, after any
\* number of compactions, a plan with compacted = true has no plan_data and
\* has a summary, and a plan that has plan_data is not marked compacted
C22_PlanExclusive ==
    Returned => \A i \in 1..Len(Plans(call.out)) : Exclusive(Plans(call.out)[i])

\* a second compaction returned summarised and detailed plans side by side
C22_Witness ==
    /\ call.status = "ok"
    /\ call.n >= 2
    /\ \E i \in 1..Len(Plans(call.out)) : Get(Plans(call.out)[i], "compacted", FALSE)
    /\ \E i \in 1..Len(Plans(call.out)) : Has(Plans(call.out)[i], "plan_data")

\* the record as the four tiering stages hand it to _enforce_size_limits
Staged(user_memory, t) ==
    _summarize_metadata(
        _compact_interaction_patterns(
            _compact_progress_history(_compact_plans(user_memory, t), t)))

\* step (a) of the enforcement alone: progress_history cut to its last 5
StepA(memory) ==
    IF Has(memory, "progress_history")
       /\ Len(memory.progress_history) > AggressiveProgressKept
    THEN Put(memory, "progress_history",
             LastN(memory.progress_history, AggressiveProgressKept))
    ELSE memory

\* C23: budget enforcement is progressive: when cutting progress_history to 5
\* entries alone brings the record under the budget, the record is returned
\* with no plan force-summarised and no field dropped
C23_Progressive ==
    (call.status = "ok" /\ call.forced /\ ~OverBudget(StepA(Staged(call.inp, call.at))))
        => call.out = StepA(Staged(call.inp, call.at))

Patterns(memory) == Get(memory, "interaction_patterns", EmptyDict)

\* C24: interaction-pattern tiering is idempotent: compacting the record a
\* compaction returned leaves interaction_patterns as the first pass left
\* them, the completion summary included
C24_PatternsIdempotent ==
    (prev.status = "ok" /\ call.status = "ok" /\ call.inp = prev.out)
        => Patterns(call.out) = Patterns(call.inp)

Essential(memory) == Get(memory, "essential_metadata", EmptyDict)

\* C25: metadata consolidation is idempotent and keeps the timestamps: when
\* the record a compaction returned is compacted again, essential_metadata
\* still holds the created_at, last_accessed and last_updated of the first
\* pass
C25_TimestampsKept ==
    (prev.status = "ok" /\ call.status = "ok" /\ call.inp = prev.out)
        => \A k \in {"created_at", "last_accessed", "last_updated"} :
               Get(Essential(call.out), k, NoneNum) = Get(Essential(prev.out), k, NoneNum)

\* C26: total_learning_hours covers the full history: the value a call
\* writes is the sum of total_duration_minutes over every entry of the input
\* record's progress_history, the ones the same call removed included,
\* divided by 60
C26_HoursOfFullHistory ==
    call.status = "ok" =>
        Get(Essential(call.out), "total_learning_hours", NoneNum)
            = _calculate_total_learning_hours(call.inp)

\* the plans are ordered by non-decreasing created_at
Chronological(plans) ==
    \A i, j \in 1..Len(plans) :
        i < j => Get(plans[i], "created_at", NoneNum) <= Get(plans[j], "created_at", NoneNum)

\* C27: chronological order of plans is kept: when the plans of the input
\* record are ordered by non-decreasing created_at, so are the plans of the
\* record compact returns
C27_PlansChronological ==
    (Returned /\ Chronological(Plans(call.inp))) => Chronological(Plans(call.out))

\* C28: expiry is final: once a session has been idle for longer than
\* session_timeout, get never returns it again, whatever get, update_state,
\* update_full_state or update_metadata calls were made on it meanwhile
C28_ExpiryFinal ==
    sret.late => ~sret.found

\* C29: lock discipline: no caller of get_session_stats waits for the
\* service lock while holding it itself
C29_NoSelfDeadlock ==
    \A c \in DOMAIN sth : ~(sth[c].pc = "cleanup_lock" /\ lock = c)

\* between two calls of the controlling thread
Settled == ctl.pc = "idle"

\* the thread a start created did not leave its loop at once
LoopAlive ==
    (Settled /\ status = "running") => AliveLoops # {}

\* no two supervisor loops run side by side
LoopUnique ==
    (Settled /\ status = "running") => Cardinality(AliveLoops) <= 1

\* C30: supervisor liveness and uniqueness: whenever the status is RUNNING
\* (and no start or stop call is under way) exactly one supervisor loop
\* thread is alive, under every interleaving of start_optimization_loop,
\* stop_all_loops and the supervisor threads
C30_OneSupervisor ==
    LoopAlive /\ LoopUnique

====
